---- MODULE Spec2Model ----
(***************************************************************************)
(* LC-3 virtual machine (santiago-MV/LC-3-VM): the machine state, the      *)
(* image loader, the operation kernel and the fetch/execute loop.          *)
(*                                                                         *)
(* Words are u16 values 0..65535.  The memory array [u16; MEM_MAX] is      *)
(* held as a function on the cells that were written; every other cell     *)
(* holds the 0 it was initialised with (MemGet).                           *)
(***************************************************************************)
EXTENDS Integers, Sequences, FiniteSets, TLC

\* ------------------------------------------------------------------ bounds
\* Fetches one run of the seed program may perform (it halts after 13).
MaxSeedSteps == 14
\* Fetches one run of any other program may perform.
MaxSteps == 5
\* Fetches a run of the unit harness may perform.
MaxUnitSteps == 2
\* Bytes waiting on stdin when the machine starts.
MaxInput == 1
\* Image files named on the command line.
MaxImages == 2

\* ------------------------------------------------------- program constants
MEM_MAX == 65536
PC_START == 12288
Kbsr == 65024
Kbdr == 65026
Rr7 == 7
Rpc == 8
Rcond == 9
Rcount == 10
Pos == 1
Zro == 2
Neg == 4

\* ------------------------------------------------------------ u16 algebra
\* u16::wrapping_add
wrapping_add(a, b) == (a + b) % 65536

\* a >> n on u16
shr(a, n) == a \div (2 ^ n)

\* a << n on u16: the bits shifted past bit 15 are dropped
shl(a, n) == (a * (2 ^ n)) % 65536

\* a & b on u16, bit by bit
RECURSIVE bitand(_, _)
bitand(a, b) ==
    IF a = 0 \/ b = 0 THEN 0
    ELSE (a % 2) * (b % 2) + 2 * bitand(a \div 2, b \div 2)

\* a | b on u16, bit by bit
RECURSIVE bitor(_, _)
bitor(a, b) ==
    IF a = 0 THEN b
    ELSE IF b = 0 THEN a
    ELSE (IF a % 2 = 1 \/ b % 2 = 1 THEN 1 ELSE 0) + 2 * bitor(a \div 2, b \div 2)

\* !a on u16
bitnot(a) == 65535 - a

\* u16::from_le_bytes([hi, lo]), the byte order the loader's comment names
from_le_bytes(hi, lo) == lo * 256 + hi

\* u16::from_be_bytes([hi, lo])
from_be_bytes(hi, lo) == hi * 256 + lo

\* ---------------------------------------------------------------- memory
\* memory[address] of the array: 0 unless the cell was written
MemGet(mem, address) == IF address \in DOMAIN mem THEN mem[address] ELSE 0

\* State::memory_write
memory_write(mem, address, value) ==
    [x \in (DOMAIN mem) \cup {address} |-> IF x = address THEN value ELSE mem[x]]

\* check_key: one byte of stdin if one is waiting (zero timeout), else Err
check_key(input) ==
    IF input # <<>>
    THEN [ok |-> TRUE, rv |-> Head(input), rest |-> Tail(input)]
    ELSE [ok |-> FALSE, rv |-> 0, rest |-> input]

\* memory_read that leaves KBSR as it was when no key is waiting
memory_read_stale(mem, address, input) ==
    IF address = Kbsr
    THEN LET k == check_key(input)
             m == IF k.ok
                  THEN memory_write(memory_write(mem, Kbsr, shl(1, 15)), Kbdr, k.rv)
                  ELSE mem
         IN [memory |-> m, value |-> MemGet(m, address), stdin |-> k.rest]
    ELSE [memory |-> mem, value |-> MemGet(mem, address), stdin |-> input]

\* State::memory_read: [memory, value, stdin] after the read of address
memory_read(mem, address, input) ==
    IF address = Kbsr
    THEN LET k == check_key(input)
             m == IF k.ok
                  THEN memory_write(memory_write(mem, Kbsr, shl(1, 15)), Kbdr, k.rv)
                  ELSE memory_write(mem, Kbsr, 0)
         IN [memory |-> m, value |-> MemGet(m, address), stdin |-> k.rest]
    ELSE [memory |-> mem, value |-> MemGet(mem, address), stdin |-> input]

\* ------------------------------------------------------- operation kernel
\* update_flags with the flag or-ed into COND instead of replacing it
update_flags_or(register, regs) ==
    [regs EXCEPT ![Rcond] =
        bitor(@, IF regs[register] = 0 THEN Zro
                 ELSE IF shr(regs[register], 15) = 1 THEN Neg
                 ELSE Pos)]

\* update_flags with the sign read from bit 14
update_flags_bit14(register, regs) ==
    [regs EXCEPT ![Rcond] =
        IF regs[register] = 0 THEN Zro
        ELSE IF shr(regs[register], 14) = 1 THEN Neg
        ELSE Pos]

update_flags(register, regs) ==
    [regs EXCEPT ![Rcond] =
        IF regs[register] = 0 THEN Zro
        ELSE IF shr(regs[register], 15) = 1 THEN Neg
        ELSE Pos]

\* sign_extend with the sign read one bit too high: nothing is extended
sign_extend_high(value, bit_count) ==
    IF shr(value, bit_count) = 1
    THEN bitor(value, shl(65535, bit_count))
    ELSE value

sign_extend(value, bit_count) ==
    IF shr(value, bit_count - 1) = 1
    THEN bitor(value, shl(65535, bit_count))
    ELSE value

\* the register write followed by update_flags that ends every loading handler
WriteDr(state, destination_register, value) ==
    [state EXCEPT !.registers =
        update_flags(destination_register, [@ EXCEPT ![destination_register] = value])]

\* add with u16::saturating_add in place of u16::wrapping_add
add_saturating(instruction, state) ==
    LET destination_register == bitand(shr(instruction, 9), 7)
        source_register_1 == bitand(shr(instruction, 6), 7)
        mode == bitand(shr(instruction, 5), 1)
        regs == state.registers
        saturating_add(a, b) == IF a + b > 65535 THEN 65535 ELSE a + b
    IN IF mode = 1
       THEN WriteDr(state, destination_register,
                saturating_add(regs[source_register_1], sign_extend(bitand(instruction, 31), 5)))
       ELSE WriteDr(state, destination_register,
                saturating_add(regs[source_register_1], regs[bitand(instruction, 7)]))

\* add with the 5 bits of the immediate used as they are, without sign_extend
add_imm_unsigned(instruction, state) ==
    LET destination_register == bitand(shr(instruction, 9), 7)
        source_register_1 == bitand(shr(instruction, 6), 7)
        mode == bitand(shr(instruction, 5), 1)
        regs == state.registers
    IN IF mode = 1
       THEN WriteDr(state, destination_register,
                wrapping_add(regs[source_register_1], bitand(instruction, 31)))
       ELSE WriteDr(state, destination_register,
                wrapping_add(regs[source_register_1], regs[bitand(instruction, 7)]))

add(instruction, state) ==
    LET destination_register == bitand(shr(instruction, 9), 7)
        source_register_1 == bitand(shr(instruction, 6), 7)
        mode == bitand(shr(instruction, 5), 1)
        regs == state.registers
    IN IF mode = 1
       THEN WriteDr(state, destination_register,
                wrapping_add(regs[source_register_1], sign_extend(bitand(instruction, 31), 5)))
       ELSE WriteDr(state, destination_register,
                wrapping_add(regs[source_register_1], regs[bitand(instruction, 7)]))

\* load_indirect with one read of memory instead of two
load_indirect_once(instruction, state) ==
    LET destination_register == bitand(shr(instruction, 9), 7)
        pc_offset == sign_extend(bitand(instruction, 511), 9)
        memory_index == wrapping_add(state.registers[Rpc], pc_offset)
    IN WriteDr(state, destination_register, MemGet(state.memory, memory_index))

load_indirect(instruction, state) ==
    LET destination_register == bitand(shr(instruction, 9), 7)
        pc_offset == sign_extend(bitand(instruction, 511), 9)
        memory_index == wrapping_add(state.registers[Rpc], pc_offset)
    IN WriteDr(state, destination_register,
               MemGet(state.memory, MemGet(state.memory, memory_index)))

\* and with the 5 bits of the immediate used as they are, without sign_extend
and_imm_unsigned(instruction, state) ==
    LET destination_register == bitand(shr(instruction, 9), 7)
        source_register_1 == bitand(shr(instruction, 6), 7)
        mode == bitand(shr(instruction, 5), 1)
        regs == state.registers
    IN IF mode = 1
       THEN WriteDr(state, destination_register,
                bitand(regs[source_register_1], bitand(instruction, 31)))
       ELSE WriteDr(state, destination_register,
                bitand(regs[source_register_1], regs[bitand(instruction, 7)]))

and(instruction, state) ==
    LET destination_register == bitand(shr(instruction, 9), 7)
        source_register_1 == bitand(shr(instruction, 6), 7)
        mode == bitand(shr(instruction, 5), 1)
        regs == state.registers
    IN IF mode = 1
       THEN WriteDr(state, destination_register,
                bitand(regs[source_register_1], sign_extend(bitand(instruction, 31), 5)))
       ELSE WriteDr(state, destination_register,
                bitand(regs[source_register_1], regs[bitand(instruction, 7)]))

\* conditional_branch with the shifts applied after the `&`:
\* `(negative_indicator & current_flags) >> 2`
conditional_branch_shift_late(instruction, state) ==
    LET negative_indicator == bitand(shr(instruction, 11), 1)
        zero_indicator == bitand(shr(instruction, 10), 1)
        positive_indicator == bitand(shr(instruction, 9), 1)
        current_flags == state.registers[Rcond]
    IN IF \/ shr(bitand(negative_indicator, current_flags), 2) = 1
          \/ shr(bitand(zero_indicator, current_flags), 1) = 1
          \/ bitand(positive_indicator, current_flags) = 1
       THEN [state EXCEPT !.registers[Rpc] =
                wrapping_add(@, sign_extend(bitand(instruction, 511), 9))]
       ELSE state

conditional_branch(instruction, state) ==
    LET negative_indicator == bitand(shr(instruction, 11), 1)
        zero_indicator == bitand(shr(instruction, 10), 1)
        positive_indicator == bitand(shr(instruction, 9), 1)
        current_flags == state.registers[Rcond]
    IN IF \/ bitand(negative_indicator, shr(current_flags, 2)) = 1
          \/ bitand(zero_indicator, shr(current_flags, 1)) = 1
          \/ bitand(positive_indicator, current_flags) = 1
       THEN [state EXCEPT !.registers[Rpc] =
                wrapping_add(@, sign_extend(bitand(instruction, 511), 9))]
       ELSE state

\* jump also saving PC in R7, as jump_to_subrutine does
jump_saves_r7(instruction, state) ==
    LET base_register == bitand(shr(instruction, 6), 7)
    IN [state EXCEPT !.registers[Rpc] = state.registers[base_register],
                     !.registers[Rr7] = state.registers[Rpc]]

jump(instruction, state) ==
    LET base_register == bitand(shr(instruction, 6), 7)
    IN [state EXCEPT !.registers[Rpc] = state.registers[base_register]]

\* jump_to_subrutine reading the base register before R7 is written
jump_to_subrutine_base_first(instruction, state) ==
    LET mode == bitand(shr(instruction, 11), 1)
        target == IF mode = 1
                  THEN wrapping_add(state.registers[Rpc],
                                    sign_extend(bitand(instruction, 2047), 11))
                  ELSE state.registers[bitand(shr(instruction, 6), 7)]
    IN [state EXCEPT !.registers[Rr7] = state.registers[Rpc],
                     !.registers[Rpc] = target]

\* jump_to_subrutine with R7 saved after PC has moved
jump_to_subrutine_late(instruction, state) ==
    LET mode == bitand(shr(instruction, 11), 1)
        jumped == IF mode = 1
                  THEN [state EXCEPT !.registers[Rpc] =
                           wrapping_add(@, sign_extend(bitand(instruction, 2047), 11))]
                  ELSE [state EXCEPT !.registers[Rpc] =
                           state.registers[bitand(shr(instruction, 6), 7)]]
    IN [jumped EXCEPT !.registers[Rr7] = jumped.registers[Rpc]]

jump_to_subrutine(instruction, state) ==
    LET saved == [state EXCEPT !.registers[Rr7] = state.registers[Rpc]]
        mode == bitand(shr(instruction, 11), 1)
    IN IF mode = 1
       THEN [saved EXCEPT !.registers[Rpc] =
                wrapping_add(@, sign_extend(bitand(instruction, 2047), 11))]
       ELSE [saved EXCEPT !.registers[Rpc] =
                saved.registers[bitand(shr(instruction, 6), 7)]]

load(instruction, state) ==
    LET sign_extended_offset == sign_extend(bitand(instruction, 511), 9)
        destination_register == bitand(shr(instruction, 9), 7)
        memory_index == wrapping_add(state.registers[Rpc], sign_extended_offset)
    IN WriteDr(state, destination_register, MemGet(state.memory, memory_index))

\* load_register with the offset added to PC as well
load_register_pc(instruction, state) ==
    LET sign_extended_offset == sign_extend(bitand(instruction, 63), 6)
        base_register == bitand(shr(instruction, 6), 7)
        destination_register == bitand(shr(instruction, 9), 7)
        memory_index == wrapping_add(state.registers[Rpc],
                            wrapping_add(state.registers[base_register], sign_extended_offset))
    IN WriteDr(state, destination_register, MemGet(state.memory, memory_index))

load_register(instruction, state) ==
    LET sign_extended_offset == sign_extend(bitand(instruction, 63), 6)
        base_register == bitand(shr(instruction, 6), 7)
        destination_register == bitand(shr(instruction, 9), 7)
        memory_index == wrapping_add(state.registers[base_register], sign_extended_offset)
    IN WriteDr(state, destination_register, MemGet(state.memory, memory_index))

load_effective_address(instruction, state) ==
    LET sign_extended_offset == sign_extend(bitand(instruction, 511), 9)
        destination_register == bitand(shr(instruction, 9), 7)
    IN WriteDr(state, destination_register,
               wrapping_add(state.registers[Rpc], sign_extended_offset))

\* not with the source taken from bits 11..9, the destination field
not_reads_destination(instruction, state) ==
    LET source_registry == bitand(shr(instruction, 9), 7)
        destination_registry == bitand(shr(instruction, 9), 7)
    IN WriteDr(state, destination_registry, bitnot(state.registers[source_registry]))

not(instruction, state) ==
    LET source_registry == bitand(shr(instruction, 6), 7)
        destination_registry == bitand(shr(instruction, 9), 7)
    IN WriteDr(state, destination_registry, bitnot(state.registers[source_registry]))

\* store followed by update_flags on the source register
store_sets_flags(instruction, state) ==
    LET sign_extended_offset == sign_extend(bitand(instruction, 511), 9)
        source_register == bitand(shr(instruction, 9), 7)
        memory_address == wrapping_add(state.registers[Rpc], sign_extended_offset)
    IN [state EXCEPT !.memory =
            memory_write(@, memory_address, state.registers[source_register]),
                     !.registers = update_flags(source_register, @)]

store(instruction, state) ==
    LET sign_extended_offset == sign_extend(bitand(instruction, 511), 9)
        source_register == bitand(shr(instruction, 9), 7)
        memory_address == wrapping_add(state.registers[Rpc], sign_extended_offset)
    IN [state EXCEPT !.memory =
            memory_write(@, memory_address, state.registers[source_register])]

\* STR: mem[wadd(R[BaseR], sext(off6,6))] <- R[SR]
store_register(instruction, state) ==
    LET sign_extended_offset == sign_extend(bitand(instruction, 63), 6)
        base_register == bitand(shr(instruction, 6), 7)
        source_register == bitand(shr(instruction, 9), 7)
        memory_address == wrapping_add(state.registers[base_register], sign_extended_offset)
    IN [state EXCEPT !.memory =
            memory_write(@, memory_address, state.registers[source_register])]

\* STI: mem[mem[wadd(PC, sext(off9,9))]] <- R[SR], the pointer read through
\* memory_read; [state, stdin]
store_indirect(instruction, state, input) ==
    LET sign_extended_offset == sign_extend(bitand(instruction, 511), 9)
        source_register == bitand(shr(instruction, 9), 7)
        pointer == memory_read(state.memory,
                       wrapping_add(state.registers[Rpc], sign_extended_offset), input)
    IN [state |-> [state EXCEPT !.memory =
                      memory_write(pointer.memory, pointer.value,
                                   state.registers[source_register])],
        stdin |-> pointer.stdin]

\* ---------------------------------------------------------- trap routines
HaltText == <<72, 65, 76, 84>>
InPrompt == <<69, 110, 116, 101, 114, 32, 99, 104, 97, 114, 97, 99, 116, 101, 114, 58, 32>>

\* PUTS: the low byte of every word from address up to the first word 0
RECURSIVE puts(_, _)
puts(mem, address) ==
    IF MemGet(mem, address) = 0 THEN <<>>
    ELSE <<bitand(MemGet(mem, address), 255)>> \o puts(mem, wrapping_add(address, 1))

\* PUTSP: low byte, then the high byte if it is not 0, up to the first word 0
RECURSIVE putsp(_, _)
putsp(mem, address) ==
    IF MemGet(mem, address) = 0 THEN <<>>
    ELSE LET word == MemGet(mem, address)
             low == <<bitand(word, 255)>>
             high == IF shr(word, 8) = 0 THEN <<>> ELSE <<shr(word, 8)>>
         IN low \o high \o putsp(mem, wrapping_add(address, 1))

\* TryFrom<u16> for Traps without the arm of 0x25
TrapCodes_without_halt == {32, 33, 34, 35, 36}

\* impl TryFrom<u16> for Traps
TrapCodes == {32, 33, 34, 35, 36, 37}

\* GETC and IN block until a byte is on stdin
trap_blocks(instruction, input) ==
    bitand(instruction, 255) \in {32, 35} /\ input = <<>>

\* trap with an unknown vector also clearing state.running
trap_stops_on_error(instruction, state, input, output) ==
    LET vector == bitand(instruction, 255)
        same == [state |-> state, stdin |-> input, stdout |-> output, result |-> "Ok", value |-> 0]
    IN CASE vector \in {32, 35} ->
              [same EXCEPT !.state = WriteDr(state, 0, Head(input)), !.stdin = Tail(input)]
         [] vector \in {33, 34, 36} -> same
         [] vector = 37 -> [same EXCEPT !.state = [state EXCEPT !.running = FALSE]]
         [] vector \notin TrapCodes ->
              [same EXCEPT !.state = [state EXCEPT !.running = FALSE],
                           !.result = "BadTrapCode", !.value = vector]

\* the trap dispatcher: [state, stdin, stdout, result, value]; Traps::try_from
\* on the vector comes first, its error is returned with `?`
trap(instruction, state, input, output) ==
    LET vector == bitand(instruction, 255)
        same == [state |-> state, stdin |-> input, stdout |-> output, result |-> "Ok", value |-> 0]
    IN IF vector \notin TrapCodes
       THEN [same EXCEPT !.result = "BadTrapCode", !.value = vector]
       ELSE
       CASE vector = 32 ->
              [same EXCEPT !.state = WriteDr(state, 0, Head(input)), !.stdin = Tail(input)]
         [] vector = 33 ->
              [same EXCEPT !.stdout = output \o <<bitand(state.registers[0], 255)>>]
         [] vector = 34 ->
              [same EXCEPT !.stdout = output \o puts(state.memory, state.registers[0])]
         [] vector = 35 ->
              [same EXCEPT !.state = WriteDr(state, 0, Head(input)), !.stdin = Tail(input),
                           !.stdout = output \o InPrompt \o <<Head(input)>>]
         [] vector = 36 ->
              [same EXCEPT !.stdout = output \o putsp(state.memory, state.registers[0])]
         [] vector = 37 ->
              [same EXCEPT !.state = [state EXCEPT !.running = FALSE],
                           !.stdout = output \o HaltText]

\* --------------------------------------------------------------- run_step
\* run_step with the RTI and reserved arms treated as a halt instead of
\* std::process::exit(1)
run_step_illegal_halts(instruction, state, input, output) ==
    LET op_code == shr(instruction, 12)
        ok(s) == [state |-> s, stdin |-> input, stdout |-> output, result |-> "Ok", value |-> 0]
    IN CASE op_code = 0 -> ok(conditional_branch(instruction, state))
         [] op_code = 1 -> ok(add(instruction, state))
         [] op_code = 2 -> ok(load(instruction, state))
         [] op_code = 3 -> ok(store(instruction, state))
         [] op_code = 4 -> ok(jump_to_subrutine(instruction, state))
         [] op_code = 5 -> ok(and(instruction, state))
         [] op_code = 6 -> ok(load_register(instruction, state))
         [] op_code = 7 -> ok(store_register(instruction, state))
         [] op_code \in {8, 13} -> ok([state EXCEPT !.running = FALSE])
         [] op_code = 9 -> ok(not(instruction, state))
         [] op_code = 10 -> ok(load_indirect(instruction, state))
         [] op_code = 11 ->
              LET r == store_indirect(instruction, state, input)
              IN [ok(r.state) EXCEPT !.stdin = r.stdin]
         [] op_code = 12 -> ok(jump(instruction, state))
         [] op_code = 14 -> ok(load_effective_address(instruction, state))
         [] op_code = 15 -> trap(instruction, state, input, output)

\* TryFrom<u16> for Operations without the arm of 13
Operations_try_from_without_res(value) ==
    CASE value = 0 -> "Br"
      [] value = 1 -> "Add"
      [] value = 2 -> "Ld"
      [] value = 3 -> "St"
      [] value = 4 -> "Jsr"
      [] value = 5 -> "And"
      [] value = 6 -> "Ldr"
      [] value = 7 -> "Str"
      [] value = 8 -> "Rti"
      [] value = 9 -> "Not"
      [] value = 10 -> "Ldi"
      [] value = 11 -> "Sti"
      [] value = 12 -> "Jmp"
      [] value = 14 -> "Lea"
      [] value = 15 -> "Trap"
      [] OTHER -> "BadOpCode"

\* impl TryFrom<u16> for Operations: the name of the variant, or BadOpCode
Operations_try_from(value) ==
    CASE value = 0 -> "Br"
      [] value = 1 -> "Add"
      [] value = 2 -> "Ld"
      [] value = 3 -> "St"
      [] value = 4 -> "Jsr"
      [] value = 5 -> "And"
      [] value = 6 -> "Ldr"
      [] value = 7 -> "Str"
      [] value = 8 -> "Rti"
      [] value = 9 -> "Not"
      [] value = 10 -> "Ldi"
      [] value = 11 -> "Sti"
      [] value = 12 -> "Jmp"
      [] value = 13 -> "Res"
      [] value = 14 -> "Lea"
      [] value = 15 -> "Trap"
      [] OTHER -> "BadOpCode"

\* impl TryFrom<u16> for Registers: [ok, register]
Registers_try_from(value) ==
    IF value \in 0..7
    THEN [ok |-> TRUE, register |-> value]
    ELSE [ok |-> FALSE, register |-> value]

\* run_step with the TRAP arm saving PC in R7 before the dispatch
run_step_trap_links(instruction, state, input, output) ==
    LET op_code == shr(instruction, 12)
        operation_code == Operations_try_from(op_code)
        ok(s) == [state |-> s, stdin |-> input, stdout |-> output, result |-> "Ok", value |-> 0]
    IN CASE operation_code = "Br" -> ok(conditional_branch(instruction, state))
         [] operation_code = "Add" -> ok(add(instruction, state))
         [] operation_code = "Ld" -> ok(load(instruction, state))
         [] operation_code = "St" -> ok(store(instruction, state))
         [] operation_code = "Jsr" -> ok(jump_to_subrutine(instruction, state))
         [] operation_code = "And" -> ok(and(instruction, state))
         [] operation_code = "Ldr" -> ok(load_register(instruction, state))
         [] operation_code = "Str" -> ok(store_register(instruction, state))
         [] operation_code = "Rti" -> [ok(state) EXCEPT !.result = "exit1"]
         [] operation_code = "Not" -> ok(not(instruction, state))
         [] operation_code = "Ldi" -> ok(load_indirect(instruction, state))
         [] operation_code = "Sti" ->
              LET r == store_indirect(instruction, state, input)
              IN [ok(r.state) EXCEPT !.stdin = r.stdin]
         [] operation_code = "Jmp" -> ok(jump(instruction, state))
         [] operation_code = "Res" -> [ok(state) EXCEPT !.result = "exit1"]
         [] operation_code = "Lea" -> ok(load_effective_address(instruction, state))
         [] operation_code = "Trap" -> trap(instruction, [state EXCEPT !.registers[Rr7] = state.registers[Rpc]],
                                             input, output)
         [] operation_code = "BadOpCode" -> [ok(state) EXCEPT !.result = "panic"]

\* [state, stdin, stdout, result, value]: result is Ok, the error run_step
\* returns with the u16 it carries, "exit1" for std::process::exit(1), or
\* "panic" for the unwrap of an Err
run_step(instruction, state, input, output) ==
    LET op_code == shr(instruction, 12)
        operation_code == Operations_try_from(op_code)
        ok(s) == [state |-> s, stdin |-> input, stdout |-> output, result |-> "Ok", value |-> 0]
    IN CASE operation_code = "Br" -> ok(conditional_branch(instruction, state))
         [] operation_code = "Add" -> ok(add(instruction, state))
         [] operation_code = "Ld" -> ok(load(instruction, state))
         [] operation_code = "St" -> ok(store(instruction, state))
         [] operation_code = "Jsr" -> ok(jump_to_subrutine(instruction, state))
         [] operation_code = "And" -> ok(and(instruction, state))
         [] operation_code = "Ldr" -> ok(load_register(instruction, state))
         [] operation_code = "Str" -> ok(store_register(instruction, state))
         [] operation_code = "Rti" -> [ok(state) EXCEPT !.result = "exit1"]
         [] operation_code = "Not" -> ok(not(instruction, state))
         [] operation_code = "Ldi" -> ok(load_indirect(instruction, state))
         [] operation_code = "Sti" ->
              LET r == store_indirect(instruction, state, input)
              IN [ok(r.state) EXCEPT !.stdin = r.stdin]
         [] operation_code = "Jmp" -> ok(jump(instruction, state))
         [] operation_code = "Res" -> [ok(state) EXCEPT !.result = "exit1"]
         [] operation_code = "Lea" -> ok(load_effective_address(instruction, state))
         [] operation_code = "Trap" -> trap(instruction, state, input, output)
         [] operation_code = "BadOpCode" -> [ok(state) EXCEPT !.result = "panic"]

\* State::increment_pc: `+= 1` on a u16
increment_pc(regs) == [regs EXCEPT ![Rpc] = wrapping_add(@, 1)]

\* `+= 1` overflows: a build with overflow checks panics, one without wraps
increment_overflows(regs) == regs[Rpc] + 1 >= 65536

\* ------------------------------------------------------------ image loader
\* buffer[i] of the Vec<u8> (0-based)
Byte(buffer, i) == buffer[i + 1]

\* the loop of read_file_to_memory: [memory, result]; result "panic" is the
\* out-of-bounds index of memory_write
RECURSIVE load_loop(_, _, _, _, _)
load_loop(buffer, mem, origin, buffer_offset, memory_offset) ==
    LET read_amount == Len(buffer)
        max_memory == MEM_MAX - origin
    IN IF buffer_offset = read_amount - 1
       THEN IF origin + memory_offset >= MEM_MAX
            THEN [memory |-> mem, result |-> "panic"]
            ELSE [memory |-> memory_write(mem, origin + memory_offset,
                                 from_be_bytes(Byte(buffer, buffer_offset), 0)),
                  result |-> "Ok"]
       ELSE IF memory_offset >= max_memory
       THEN [memory |-> mem, result |-> "BadImageSize"]
       ELSE IF buffer_offset >= read_amount
       THEN [memory |-> mem, result |-> "Ok"]
       ELSE load_loop(buffer,
                memory_write(mem, origin + memory_offset,
                    from_be_bytes(Byte(buffer, buffer_offset), Byte(buffer, buffer_offset + 1))),
                origin, buffer_offset + 2, memory_offset + 1)

\* read_file_to_memory giving back the memory it was called with when the
\* image does not fit
read_file_to_memory_rollback(buffer, mem) ==
    IF Len(buffer) < 2
    THEN [memory |-> mem, result |-> "panic"]
    ELSE LET r == load_loop(buffer, mem,
                      from_be_bytes(Byte(buffer, 0), Byte(buffer, 1)), 2, 0)
         IN IF r.result = "BadImageSize"
            THEN [memory |-> mem, result |-> "BadImageSize"]
            ELSE r

\* read_file_to_memory writing into a fresh memory instead of state.memory
read_file_to_memory_fresh(buffer, mem) ==
    IF Len(buffer) < 2
    THEN [memory |-> mem, result |-> "panic"]
    ELSE load_loop(buffer, [x \in {} |-> 0], from_be_bytes(Byte(buffer, 0), Byte(buffer, 1)), 2, 0)

\* read_file_to_memory on the bytes of an opened file: buffer[0] and buffer[1]
\* are indexed without a length test
read_file_to_memory(buffer, mem) ==
    IF Len(buffer) < 2
    THEN [memory |-> mem, result |-> "panic"]
    ELSE load_loop(buffer, mem, from_be_bytes(Byte(buffer, 0), Byte(buffer, 1)), 2, 0)

\* ------------------------------------------------------------------ state
VARIABLES
    memory,          \* State.memory
    registers,       \* State.registers: R0..R7, PC (8), COND (9)
    running,         \* State.running
    loc,             \* where the program is: "termios", "disable", "args",
                     \* "load", "fetch", "incr", "step", "returned" (run_loop
                     \* returned), "exited", "panicked"
    memory_address,  \* run_loop's local: the address of the last fetch
    instruction,     \* run_loop's local: the word of the last fetch
    stdin,           \* the bytes waiting on standard input
    stdout,          \* the bytes written to standard output
    result,          \* the Result the last call returned, "none" before any
    exit_code,       \* the exit code of the process, -1 while it runs
    steps,           \* fetches performed
    loaded,          \* images loaded
    buffer,          \* read_file_to_memory's local: the bytes of the last file
    harness,         \* what built the state: "main", "loop_test" or "unit"
    paths,           \* main: the files of args[1..] read so far, in order
    error_value,     \* the u16 the last Err carries (BadTrapCode), 0 if none
    tty,             \* the c_lflag bits the terminal of stdin has
    termio,          \* main's Termios value
    handler_termio   \* the Termios value the ctrlc handler closure holds

console == <<tty, termio, handler_termio>>

vars == <<memory, registers, running, loc, memory_address, instruction, stdin,
          stdout, result, exit_code, steps, loaded, buffer, harness, paths,
          error_value, console>>

State == [memory |-> memory, registers |-> registers, running |-> running]

\* [0_u16; MEM_MAX]
ZeroMemory == [x \in {} |-> 0]

\* [0_u16; Registers::InstRet]
ZeroRegisters == [r \in 0..(Rcount - 1) |-> 0]

\* State::default
default ==
    [memory |-> ZeroMemory,
     registers |-> [ZeroRegisters EXCEPT ![Rpc] = PC_START, ![Rcond] = Zro],
     running |-> TRUE]

\* ---------------------------------------------------------------- terminal
\* c_lflag as the set of its bits that are on
ICANON == "ICANON"
ECHO == "ECHO"
\* any bit of c_lflag that is neither of the two
OTHER_LFLAG == "OTHER_LFLAG"

\* the c_lflag of disable_input_buffering: `&= !ICANON & !ECHO`, on the
\* Termios value the caller passed by reference
disable_input_buffering(termios) == termios \ {ICANON, ECHO}

\* the modes stdin's terminal may be in when the program starts
TtyModes == {{ICANON, ECHO, OTHER_LFLAG}, {ICANON, OTHER_LFLAG}}

\* ----------------------------------------------------------------- inputs
Keys == {0, 65}

RECURSIVE SeqsUpTo(_, _)
SeqsUpTo(S, n) ==
    IF n = 0 THEN {<<>>}
    ELSE LET shorter == SeqsUpTo(S, n - 1)
         IN shorter \cup {Append(q, k) : q \in shorter, k \in S}

Inputs == SeqsUpTo(Keys, MaxInput)

RECURSIVE WordBytes(_)
WordBytes(words) ==
    IF words = <<>> THEN <<>>
    ELSE <<Head(words) \div 256, Head(words) % 256>> \o WordBytes(Tail(words))

\* the bytes of an image file: origin word, payload words, trailing bytes
Image(origin, words, trailing) == WordBytes(<<origin>> \o words) \o trailing

\* programs loaded at PC_START
Programs ==
    { <<4159, 49152>>,         \* ADD R0,R0,#-1; JMP R0: PC reaches 0xFFFF
      <<8193, 49152, 65024>>,  \* LD R0,+1; JMP R0; .FILL KBSR: fetches at KBSR
      <<40961, 61477, 65024>>, \* LDI R0,+1; HALT; .FILL KBSR
      <<8193, 24576, 65024>>,  \* LD R0,+1; LDR R0,R0,#0; .FILL KBSR
      <<8193, 61473, 65024>>,  \* LD R0,+1; OUT; .FILL KBSR
      <<61472, 61477>>,        \* GETC; HALT
      <<61475, 1025>>,         \* IN; BRz +1
      <<57345, 61474, 72>>,    \* LEA R0,+1; PUTS; .FILL 'H'
      <<57345, 61476, 18505>>, \* LEA R0,+1; PUTSP; .FILL "IH"
      <<37439, 12801, 61695>>, \* NOT R1,R0; ST R1,+1; TRAP 0xFF
      <<32768>>,               \* RTI
      <<53248>>,               \* reserved
      <<4641, 45057, 12288>>,  \* ADD R1,R0,#1; STI R0,+1; .FILL 0x3000
      <<18433, 0, 29184>>,     \* JSR +1; .FILL 0; STR R1,R0,#0
      <<21088, 3585, 16384>>,  \* AND R1,R1,#0; BRnzp +1; JSRR R0
      <<>> }

Images ==
    {Image(PC_START, p, <<>>) : p \in Programs}
        \cup {Image(PC_START, <<4660, 22136>>, <<154>>),
              Image(65534, <<4660, 22136>>, <<>>),
              Image(65535, <<4660>>, <<154>>),
              Image(65535, <<4660, 22136>>, <<>>),
              Image(65535, <<>>, <<154>>),
              <<48>>, <<>>}

\* the register file of the unit harness: zero in the tests, here also the
\* boundary values of a word, one per register
UnitRegisters(cond) ==
    [r \in 0..(Rcount - 1) |->
        CASE r = 0 -> 0
          [] r = 1 -> 1
          [] r = 2 -> 32767
          [] r = 3 -> 32768
          [] r = 4 -> 65535
          [] r = 5 -> 65024
          [] r = 6 -> 255
          [] r = 7 -> 32768
          [] r = Rpc -> 0
          [] r = Rcond -> cond]

UnitRegisterFiles == {ZeroRegisters} \cup {UnitRegisters(c) : c \in {Pos, Zro, Neg}}

\* data cells of the unit harness
UnitMemory ==
    [x \in {1, 2, 8, 32, 32768, 32769, 65024, 65471, 65535} |->
        CASE x = 1 -> 65024
          [] x = 2 -> 32768
          [] x = 8 -> 65535
          [] x = 32 -> 2
          [] x = 32768 -> 32767
          [] x = 32769 -> 8
          [] x = 65024 -> 7
          [] x = 65471 -> 1
          [] x = 65535 -> 32769]

\* instruction words of the unit harness: every opcode, with the fields
\* bits 11..9, 8..6 and 5..0 drawn from boundary values
UnitWords ==
    {op * 4096 + hi * 512 + mid * 64 + lo :
        op \in 0..15, hi \in {0, 1, 2, 4, 7}, mid \in {0, 1, 4, 7},
        lo \in {0, 1, 7, 31, 32, 37, 48, 63}}
        \cup {61473, 61474, 61475, 61476}

UnitAddresses == {0, 65534}

\* <<address, word>>: where the instruction is, and the instruction; the
\* keyboard registers are fetched too
UnitCases ==
    (UnitAddresses \X UnitWords) \cup ({Kbsr, Kbdr, 65535} \X {0, 4159, 61477})

\* the program of loop_test
SeedMemory ==
    LET cells == <<
            <<50, 25689>>, <<25689, 25>>, <<56, 777>>, <<9, 50>>,
            <<10, 43559>>, <<11, 10237>>, <<12, 4805>>, <<13, 22240>>, <<14, 1029>>,
            <<20, 38655>>, <<21, 49472>>, <<25, 25439>>, <<26, 16456>>,
            <<777, 45900>>, <<778, 15875>>, <<779, 31296>>, <<780, 61477>> >>
    IN [x \in {cells[i][1] : i \in 1..Len(cells)} |->
            cells[CHOOSE i \in 1..Len(cells) : cells[i][1] = x][2]]

\* ------------------------------------------------------------------- Init
\* the start of main; the State that State::default builds later is in place
Init ==
    /\ memory = default.memory
    /\ registers = default.registers
    /\ running = default.running
    /\ loc = "termios"
    /\ memory_address = 0
    /\ instruction = 0
    /\ stdin \in Inputs
    /\ stdout = <<>>
    /\ result = "none"
    /\ exit_code = -1
    /\ steps = 0
    /\ loaded = 0
    /\ buffer = <<>>
    /\ harness = "main"
    /\ paths = <<>>
    /\ error_value = 0
    /\ tty \in TtyModes
    /\ termio = {}
    /\ handler_termio = {}

\* loop_test before its call of run_loop
InitLoopTest ==
    /\ memory = SeedMemory
    /\ registers = [ZeroRegisters EXCEPT ![Rpc] = 10]
    /\ harness = "loop_test"

\* a State literal as the unit tests build it, one instruction word in memory
\* at the address PC holds
InitUnit ==
    /\ \E c \in UnitCases, regs \in UnitRegisterFiles :
          /\ memory = memory_write(UnitMemory, c[1], c[2])
          /\ registers = [regs EXCEPT ![Rpc] = c[1]]
    /\ harness = "unit"

InitTest ==
    /\ InitLoopTest \/ InitUnit
    /\ running = TRUE
    /\ loc = "fetch"
    /\ memory_address = 0
    /\ instruction = 0
    /\ stdin \in Inputs
    /\ stdout = <<>>
    /\ result = "none"
    /\ exit_code = -1
    /\ steps = 0
    /\ loaded = 0
    /\ buffer = <<>>
    /\ paths = <<>>
    /\ error_value = 0
    /\ tty = {ICANON, ECHO, OTHER_LFLAG}
    /\ termio = {}
    /\ handler_termio = {}

\* the fetches a run may perform
StepBound ==
    CASE harness = "loop_test" -> MaxSeedSteps
      [] harness = "unit" -> MaxUnitSteps
      [] OTHER -> MaxSteps

\* ---------------------------------------------------------------- actions
\* main: Termios::from_fd, and ctrlc::set_handler whose `move` closure takes
\* a copy of the Termios value; an error of from_fd is exit(0)
MainTermios ==
    /\ loc = "termios"
    /\ \/ /\ termio' = tty
          /\ handler_termio' = tty
          /\ loc' = "disable"
          /\ UNCHANGED <<result, exit_code>>
       \/ /\ result' = "BadTermios"
          /\ loc' = "exited"
          /\ exit_code' = 0
          /\ UNCHANGED <<termio, handler_termio>>
    /\ UNCHANGED <<memory, registers, running, memory_address, instruction, stdin,
                   stdout, steps, loaded, buffer, harness, paths, error_value, tty>>

\* main: disable_input_buffering(&mut termio); tcsetattr succeeds or fails,
\* a failure is exit(0)
MainDisable ==
    /\ loc = "disable"
    /\ termio' = disable_input_buffering(termio)
    /\ \/ /\ tty' = termio'
          /\ loc' = "args"
          /\ UNCHANGED <<result, exit_code>>
       \/ /\ result' = "DisableInputBuffering"
          /\ loc' = "exited"
          /\ exit_code' = 0
          /\ UNCHANGED tty
    /\ UNCHANGED <<memory, registers, running, memory_address, instruction, stdin,
                   stdout, steps, loaded, buffer, harness, paths, error_value,
                   handler_termio>>

\* main: State::default and the test `args.len() < 2`; FewArguments is exit(0)
MainArguments ==
    /\ loc = "args"
    /\ \/ /\ loc' = "load"
          /\ UNCHANGED <<result, exit_code>>
       \/ /\ result' = "FewArguments"
          /\ loc' = "exited"
          /\ exit_code' = 0
    /\ UNCHANGED <<memory, registers, running, memory_address, instruction, stdin,
                   stdout, steps, loaded, buffer, harness, paths, error_value, console>>

\* the ctrlc handler: restore_input_buffering on the closure's Termios value
\* (tcsetattr succeeds or fails), then exit(0)
Interrupt ==
    /\ loc \notin {"termios", "exited", "panicked"}
    /\ harness = "main"
    /\ \/ tty' = handler_termio /\ result' = "Interrupted"
       \/ tty' = tty /\ result' = "RestoreInputBuffering"
    /\ loc' = "exited"
    /\ exit_code' = 0
    /\ UNCHANGED <<memory, registers, running, memory_address, instruction, stdin,
                   stdout, steps, loaded, buffer, harness, paths, error_value,
                   termio, handler_termio>>

\* main: File::open or read_to_end fails for a path, BadFile and exit(0)
LoadBadFile ==
    /\ loc = "load"
    /\ loaded < MaxImages
    /\ result' = "BadFile"
    /\ loc' = "exited"
    /\ exit_code' = 0
    /\ loaded' = loaded + 1
    /\ UNCHANGED <<memory, registers, running, memory_address, instruction, stdin,
                   stdout, steps, buffer, harness, paths, error_value, console>>

\* main: one iteration of `for p in paths`, read_file_to_memory and the
\* error_handler / exit(0) that follows an error
LoadImage ==
    /\ loc = "load"
    /\ loaded < MaxImages
    /\ \E file \in Images :
          LET r == read_file_to_memory(file, memory)
          IN /\ buffer' = file
             /\ memory' = r.memory
             /\ result' = r.result
             /\ loc' = CASE r.result = "Ok" -> "load"
                         [] r.result = "panic" -> "panicked"
                         [] OTHER -> "exited"
             /\ exit_code' = CASE r.result = "Ok" -> exit_code
                               [] r.result = "panic" -> 101
                               [] OTHER -> 0
             /\ paths' = Append(paths, file)
    /\ loaded' = loaded + 1
    /\ UNCHANGED <<registers, running, memory_address, instruction, stdin, stdout,
                   steps, harness, error_value, console>>

\* main: every path is loaded, run_loop is called
StartRun ==
    /\ loc = "load"
    /\ loaded >= 1
    /\ loc' = "fetch"
    /\ UNCHANGED <<memory, registers, running, memory_address, instruction, stdin,
                   stdout, result, exit_code, steps, loaded, buffer, harness, paths, error_value, console>>

\* Fetch without the test of state.running (a do-while loop)
FetchAfterHalt ==
    /\ loc = "fetch"
    /\ steps < StepBound
    /\ LET r == memory_read(memory, registers[Rpc], stdin)
       IN /\ memory_address' = registers[Rpc]
          /\ instruction' = r.value
          /\ memory' = r.memory
          /\ stdin' = r.stdin
    /\ loc' = "incr"
    /\ steps' = steps + 1
    /\ UNCHANGED <<registers, running, stdout, result, exit_code, loaded, buffer, harness, paths, error_value, console>>

\* run_loop: `while state.running`, the read of PC and memory_read
Fetch ==
    /\ loc = "fetch"
    /\ running
    /\ steps < StepBound
    /\ LET r == memory_read(memory, registers[Rpc], stdin)
       IN /\ memory_address' = registers[Rpc]
          /\ instruction' = r.value
          /\ memory' = r.memory
          /\ stdin' = r.stdin
    /\ loc' = "incr"
    /\ steps' = steps + 1
    /\ UNCHANGED <<registers, running, stdout, result, exit_code, loaded, buffer, harness, paths, error_value, console>>

\* run_loop: state.increment_pc()
IncrementPc ==
    /\ loc = "incr"
    /\ registers' = increment_pc(registers)
    /\ loc' = "step"
    /\ UNCHANGED <<memory, running, memory_address, instruction, stdin, stdout,
                   result, exit_code, steps, loaded, buffer, harness, paths, error_value, console>>

\* run_loop: increment_pc in a build with overflow checks, PC = 0xFFFF
IncrementPcPanic ==
    /\ loc = "incr"
    /\ increment_overflows(registers)
    /\ loc' = "panicked"
    /\ exit_code' = 101
    /\ UNCHANGED <<memory, registers, running, memory_address, instruction, stdin,
                   stdout, result, steps, loaded, buffer, harness, paths, error_value, console>>

\* run_loop: run_step(instruction, state)?
RunStep ==
    /\ loc = "step"
    /\ ~(shr(instruction, 12) = 15 /\ trap_blocks(instruction, stdin))
    /\ LET r == run_step(instruction, State, stdin, stdout)
       IN /\ memory' = r.state.memory
          /\ registers' = r.state.registers
          /\ running' = r.state.running
          /\ stdin' = r.stdin
          /\ stdout' = r.stdout
          /\ result' = r.result
          /\ loc' = CASE r.result = "Ok" -> "fetch"
                      [] r.result = "exit1" -> "exited"
                      [] r.result = "panic" -> "panicked"
                      [] OTHER -> "returned"
          /\ exit_code' = CASE r.result = "exit1" -> 1
                            [] r.result = "panic" -> 101
                            [] OTHER -> exit_code
          /\ error_value' = r.value
    /\ UNCHANGED <<memory_address, instruction, steps, loaded, buffer, harness, paths, console>>

\* run_loop: the loop condition fails, Ok(()) is returned
LoopExit ==
    /\ loc = "fetch"
    /\ ~running
    /\ loc' = "returned"
    /\ result' = "Ok"
    /\ UNCHANGED <<memory, registers, running, memory_address, instruction, stdin,
                   stdout, exit_code, steps, loaded, buffer, harness, paths, error_value, console>>

\* main after run_loop: restore_input_buffering(&mut termio) (tcsetattr
\* succeeds or fails), exit(0) on an error of either call, the end of main
\* otherwise
MainReturn ==
    /\ loc = "returned"
    /\ harness = "main"
    /\ \/ /\ tty' = termio
          /\ UNCHANGED result
       \/ /\ tty' = tty
          /\ result' = IF result = "Ok" THEN "RestoreInputBuffering" ELSE result
    /\ loc' = "exited"
    /\ exit_code' = 0
    /\ UNCHANGED <<memory, registers, running, memory_address, instruction, stdin,
                   stdout, steps, loaded, buffer, harness, paths, error_value,
                   termio, handler_termio>>

RunLoop == Fetch \/ IncrementPc \/ IncrementPcPanic \/ RunStep \/ LoopExit

Next ==
    \/ MainTermios
    \/ MainDisable
    \/ MainArguments
    \/ LoadImage
    \/ LoadBadFile
    \/ StartRun
    \/ RunLoop
    \/ MainReturn
    \/ Interrupt

NextTest == RunLoop

\* the program started by main
Spec == Init /\ [][Next]_vars

\* run_loop on a State the tests build
SpecTest == InitTest /\ [][NextTest]_vars

\* ------------------------------------------------ vocabulary of the claims
\* fields of the fetched word, by arithmetic
OpCode == instruction \div 4096
FieldDr == (instruction \div 512) % 8
FieldBase == (instruction \div 64) % 8

\* sext(offset, w) as an integer, for the low w bits of the fetched word
SextInt(w) ==
    LET offset == instruction % (2 ^ w)
    IN IF offset >= 2 ^ (w - 1) THEN offset - 2 ^ w ELSE offset

\* (a + 1 + sext(offset, w)) mod 2^16 for the word fetched at a
PcRelative(w) == (memory_address + 1 + SextInt(w) + 65536) % 65536

\* the flag of a word: zero, bit 15 set, or neither
FlagOf(value) == IF value = 0 THEN Zro ELSE IF value >= 32768 THEN Neg ELSE Pos

\* the two memories agree outside the addresses of S
SameMemoryExcept(m1, m2, S) ==
    \A x \in ((DOMAIN m1) \cup (DOMAIN m2)) \ S : MemGet(m1, x) = MemGet(m2, x)

\* run_step has just executed the fetched word and returned Ok
Executed == loc = "fetch" /\ steps > 0

\* ----------------------------------------------------------------- claims
\* C1: in every state reachable from State::default by loading images and
\* running the fetch/execute loop, COND is exactly one of POS, ZRO, NEG.
C1_CondIsOneFlag == registers[Rcond] \in {Pos, Zro, Neg}

\* C1 witness: a loaded program has executed an instruction that set NEG.
C1_Witness == harness = "main" /\ Executed /\ loaded >= 1 /\ registers[Rcond] = Neg

\* C2: after each of ADD, AND, NOT, LD, LDR, LDI and LEA, COND is the flag of
\* the value now in R[DR]: ZRO if it is 0, NEG if bit 15 is set, POS otherwise.
C2_FlagsFollowDr ==
    [][(loc = "step" /\ OpCode \in {1, 5, 9, 2, 6, 10, 14})
          => registers'[Rcond] = FlagOf(registers'[FieldDr])]_vars

\* C2 witness: a NOT of the unit harness has written a word with bit 15 set
\* and left NEG.
C2_Witness ==
    /\ harness = "unit" /\ Executed /\ OpCode = 9
    /\ registers[FieldDr] >= 32768 /\ registers[Rcond] = Neg

\* C3: for the word fetched at address a, a taken BR, LD, ST, LDI, STI and LEA
\* use the address (a + 1 + sext(off9)) mod 2^16 and JSR uses
\* (a + 1 + sext(off11)) mod 2^16.
BrTaken ==
    \/ (instruction \div 2048) % 2 = 1 /\ registers[Rcond] = Neg
    \/ (instruction \div 1024) % 2 = 1 /\ registers[Rcond] = Zro
    \/ (instruction \div 512) % 2 = 1 /\ registers[Rcond] = Pos

\* the pointer STI reads at address a: the keyboard poll if a is KBSR
PolledWord(a) ==
    IF a = Kbsr THEN (IF stdin # <<>> THEN 32768 ELSE 0) ELSE MemGet(memory, a)

C3_PcRelativeAddress ==
    [][loc = "step" =>
        /\ (OpCode = 0 /\ BrTaken) => registers'[Rpc] = PcRelative(9)
        /\ OpCode = 2 => registers'[FieldDr] = MemGet(memory, PcRelative(9))
        /\ OpCode = 3 => MemGet(memory', PcRelative(9)) = registers[FieldDr]
        /\ OpCode = 10 =>
              registers'[FieldDr] = MemGet(memory, MemGet(memory, PcRelative(9)))
        /\ OpCode = 11 =>
              MemGet(memory', PolledWord(PcRelative(9))) = registers[FieldDr]
        /\ OpCode = 14 => registers'[FieldDr] = PcRelative(9)
        /\ (OpCode = 4 /\ (instruction \div 2048) % 2 = 1) =>
              registers'[Rpc] = PcRelative(11)]_vars

\* C3 witness: LEA with offset +1 fetched at 0xFFFE has produced address 0,
\* the sum 0xFFFF + 1 having wrapped.
C3_Witness ==
    /\ harness = "unit" /\ Executed /\ steps = 1 /\ OpCode = 14
    /\ memory_address = 65534 /\ instruction % 512 = 1 /\ registers[FieldDr] = 0

\* C4: the program of loop_test, run from an otherwise zero state, halts
\* after its 13th instruction without an error, and in the halted state
\* mem[0] = 777, mem[782] = 27, mem[777] = 25 and R7 = 27.
C4_SeedProgram ==
    harness = "loop_test" =>
        /\ loc \notin {"exited", "panicked"}
        /\ result \in {"none", "Ok"}
        /\ (steps = 13 /\ loc = "fetch") => ~running
        /\ ~running =>
              /\ MemGet(memory, 0) = 777
              /\ MemGet(memory, 782) = 27
              /\ MemGet(memory, 777) = 25
              /\ registers[Rr7] = 27

\* C4 witness: run_loop has returned Ok on the halted seed program.
C4_Witness ==
    /\ harness = "loop_test" /\ loc = "returned" /\ result = "Ok" /\ ~running
    /\ MemGet(memory, 782) = 27 /\ registers[Rr7] = 27

\* C5: an iteration of run_loop starts only while running is true; it fetches
\* the word at PC through memory_read, then increments PC, then dispatches
\* that word; once HALT has cleared running nothing more is fetched or
\* executed and run_loop returns Ok.  (The overflow abort of increment_pc at
\* PC = 0xFFFF, see C7, ends the process between the fetch and the dispatch.)
IsHalt == OpCode = 15 /\ instruction % 256 = 37

C5_LoopOrder ==
    [][/\ loc' = "incr" =>
             /\ loc = "fetch" /\ running
             /\ memory_address' = registers[Rpc]
             /\ instruction' = MemGet(memory', registers[Rpc])
             /\ registers' = registers
       /\ loc' = "step" =>
             /\ loc = "incr"
             /\ registers' = [registers EXCEPT ![Rpc] = (memory_address + 1) % 65536]
             /\ instruction' = instruction /\ memory' = memory
       /\ loc = "step" =>
             /\ registers[Rpc] = (memory_address + 1) % 65536
             /\ instruction' = instruction
             /\ running' = ~IsHalt
             /\ loc' \in {"fetch", "returned", "exited"}
       /\ loc = "incr" => loc' \in {"step", "panicked"}
       /\ ~running =>
             /\ loc = "fetch" => (loc' = "returned" /\ result' = "Ok")
             /\ loc' # "incr" /\ loc' # "step"
             /\ <<memory, registers, running, instruction>>'
                    = <<memory, registers, running, instruction>>]_vars

\* C5 witness: the seed program has halted and run_loop has returned Ok
\* after 13 complete iterations.
C5_Witness ==
    harness = "loop_test" /\ loc = "returned" /\ result = "Ok" /\ steps = 13 /\ IsHalt

\* C6: running is true in the initial state, and the only step that clears
\* it is the execution of TRAP 0x25: no other opcode or trap, no fetch and
\* no image load does.
C6_OnlyHaltStops ==
    /\ running = TRUE
    /\ [][(running /\ ~running') => (loc = "step" /\ IsHalt)]_vars

\* C6 witness: a program loaded by main has executed its second instruction
\* and is still running.
C6_Witness ==
    harness = "main" /\ Executed /\ steps >= 2 /\ running /\ ~IsHalt

\* C7: when the run loop fetches at PC = 0xFFFF the increment leaves PC = 0
\* and the fetched word is dispatched: the overflow stops nothing.
C7_PcWraps ==
    [][(loc = "incr" /\ registers[Rpc] = 65535)
          => (loc' = "step" /\ registers'[Rpc] = 0)]_vars

\* C8: a load whose address is KBSR polls the keyboard: LD and LDR at KBSR,
\* and LDI whose pointer is KBSR, leave 0x8000 in R[DR] and the key in KBDR
\* when a key is waiting, and 0 in R[DR] when none is.
LoadsFromKbsr ==
    \/ OpCode = 2 /\ PcRelative(9) = Kbsr
    \/ OpCode = 6 /\ (registers[FieldBase] + SextInt(6) + 65536) % 65536 = Kbsr
    \/ OpCode = 10 /\ PcRelative(9) # Kbsr /\ MemGet(memory, PcRelative(9)) = Kbsr

C8_LoadsPollKeyboard ==
    [][(loc = "step" /\ LoadsFromKbsr) =>
          IF stdin # <<>>
          THEN registers'[FieldDr] = 32768 /\ MemGet(memory', Kbdr) = Head(stdin)
          ELSE registers'[FieldDr] = 0]_vars

\* C9: memory_read(addr) returns the word at addr and writes memory only for
\* addr = KBSR: with a key waiting KBSR becomes 0x8000 and KBDR the key,
\* with none KBSR becomes 0 and KBDR stays; a read of another address, KBDR
\* included, changes no memory word; no read changes a register.
C9_MemoryRead ==
    [][(loc = "fetch" /\ loc' = "incr") =>
          LET addr == registers[Rpc]
          IN /\ instruction' = MemGet(memory', addr)
             /\ registers' = registers
             /\ addr # Kbsr =>
                   SameMemoryExcept(memory, memory', {}) /\ stdin' = stdin
             /\ (addr = Kbsr /\ stdin # <<>>) =>
                   /\ MemGet(memory', Kbsr) = 32768
                   /\ MemGet(memory', Kbdr) = Head(stdin)
                   /\ SameMemoryExcept(memory, memory', {Kbsr, Kbdr})
             /\ (addr = Kbsr /\ stdin = <<>>) =>
                   /\ MemGet(memory', Kbsr) = 0
                   /\ SameMemoryExcept(memory, memory', {Kbsr})]_vars

\* C9 witness: a fetch at KBSR with the key 65 waiting has consumed the key,
\* returned 0x8000 and left the key in KBDR.
C9_Witness ==
    /\ harness = "unit" /\ loc = "incr" /\ memory_address = Kbsr
    /\ stdin = <<>> /\ instruction = 32768 /\ MemGet(memory, Kbdr) = 65

\* C10: for a file of n >= 2 bytes that fits in memory, the words
\* bytes[2k+2]*256 + bytes[2k+3] (2k+3 < n) are at origin + k after the
\* load, and for odd n the last byte b is at the next address as b*256.
FileFits(file) ==
    Len(file) >= 2 /\ (file[1] * 256 + file[2]) + ((Len(file) - 1) \div 2) <= 65536

Origin(file) == file[1] * 256 + file[2]
PayloadWords(file) == (Len(file) - 1) \div 2

\* one iteration of main's `for p in paths` has read a file
FileRead == loc = "load" /\ paths' # paths

\* C11: a file whose payload needs more than 65536 - origin words makes
\* read_file_to_memory return BadImageSize, also when the word that does not
\* fit comes from an odd trailing byte, and no index above 0xFFFF is used
\* (the out-of-bounds index is the panic of the model).
C11_OversizeIsBadImageSize ==
    [][(FileRead /\ Len(buffer') >= 2
            /\ PayloadWords(buffer') > MEM_MAX - Origin(buffer')) =>
          (result' = "BadImageSize" /\ loc' # "panicked")]_vars

\* C12: a file of 0 or 1 byte makes read_file_to_memory return BadFile: the
\* process does not panic and memory is as it was.
C12_ShortFileIsBadFile ==
    [][(FileRead /\ Len(buffer') < 2) =>
          (result' = "BadFile" /\ loc' # "panicked" /\ memory' = memory)]_vars

\* file has a word for address x
Covers(file, x) == Origin(file) <= x /\ x < Origin(file) + PayloadWords(file)

\* the word file has for address x: two bytes, or the odd last byte and 0
ImageWord(file, x) ==
    LET i == 2 * (x - Origin(file)) + 3
    IN file[i] * 256 + (IF i + 1 <= Len(file) THEN file[i + 1] ELSE 0)

\* the word of the last file of files that covers x, 0 if none does
RECURSIVE LastCovering(_, _)
LastCovering(files, x) ==
    IF files = <<>> THEN 0
    ELSE LET last == files[Len(files)]
         IN IF Covers(last, x) THEN ImageWord(last, x)
            ELSE LastCovering(SubSeq(files, 1, Len(files) - 1), x)

CoveredAddresses(files) ==
    UNION {Origin(files[i])..(Origin(files[i]) + PayloadWords(files[i]) - 1) :
              i \in 1..Len(files)}

\* C13: while main's images load without an error and when run_loop is
\* entered, every memory word is the word of the last loaded image that
\* covers its address (0 if none), R0..R7 are 0, COND is ZRO, PC is 0x3000
\* and running is true; a successful load leaves every register and every
\* word outside [origin, origin + payload words) as it was.
C13_LoadedState ==
    /\ [][(harness' = "main" /\ loc' \in {"load", "fetch"} /\ steps' = 0) =>
            /\ \A x \in (DOMAIN memory') \cup CoveredAddresses(paths') :
                  MemGet(memory', x) = LastCovering(paths', x)
            /\ \A r \in 0..7 : registers'[r] = 0
            /\ registers'[Rcond] = Zro
            /\ registers'[Rpc] = PC_START
            /\ running' = TRUE]_vars
    /\ [][(FileRead /\ result' = "Ok") =>
            /\ registers' = registers
            /\ running' = running
            /\ SameMemoryExcept(memory, memory',
                  Origin(buffer')..(Origin(buffer') + PayloadWords(buffer') - 1))]_vars

\* C13 witness: run_loop is entered after two images at 0x3000, of three
\* words and then of one word: the first word is the second image's, the
\* third word the first image's.
C13_Witness ==
    /\ harness = "main" /\ loc = "fetch" /\ steps = 0
    /\ paths = <<Image(PC_START, <<8193, 49152, 65024>>, <<>>),
                 Image(PC_START, <<32768>>, <<>>)>>
    /\ MemGet(memory, 12288) = 32768
    /\ MemGet(memory, 12289) = 49152
    /\ MemGet(memory, 12290) = 65024

\* ------------------------------------------------------- illegal opcodes
\* C14: run_step on a word of opcode 8 (RTI) or 13 (reserved) ends the
\* process with exit code 1 and changes no register, no COND and no memory
\* word; once the process has ended nothing is fetched or executed. (A step
\* of the ctrlc handler is not an execution of the word.)
C14_IllegalOpcodeIsFatal ==
    /\ [][(loc = "step" /\ OpCode \in {8, 13} /\ result' # "Interrupted") =>
            /\ loc' = "exited"
            /\ exit_code' = 1
            /\ registers' = registers
            /\ memory' = memory]_vars
    /\ [][loc = "exited" =>
            (loc' = "exited" /\ steps' = steps /\ registers' = registers
                /\ memory' = memory /\ stdout' = stdout)]_vars

\* C14 witness: the process has ended on a word of opcode 8 or 13.
C14_Witness ==
    /\ loc = "exited" /\ exit_code = 1 /\ OpCode \in {8, 13}
    /\ result = "exit1" /\ steps > 0

\* ----------------------------------------------------------- trap vectors
\* C15: a TRAP word whose low 8 bits are one of 0x20..0x25 is executed and
\* the loop goes on; for any other vector run_step returns
\* BadTrapCode(vector) with the machine, stdin and stdout as they were, and
\* run_loop returns it without another fetch.
C15_TrapVectors ==
    /\ [][(loc = "step" /\ OpCode = 15 /\ result' # "Interrupted") =>
            LET vector == instruction % 256
            IN IF vector \in 32..37
               THEN result' = "Ok" /\ loc' = "fetch"
               ELSE /\ result' = "BadTrapCode"
                    /\ error_value' = vector
                    /\ loc' = "returned"
                    /\ registers' = registers
                    /\ memory' = memory
                    /\ running' = running
                    /\ stdin' = stdin
                    /\ stdout' = stdout]_vars
    /\ [][loc = "returned" =>
            (loc' = "exited" /\ steps' = steps /\ registers' = registers
                /\ memory' = memory /\ stdout' = stdout)]_vars

\* C15 witness: run_loop has returned BadTrapCode(0xFF) for a TRAP word.
C15_Witness ==
    /\ loc = "returned" /\ result = "BadTrapCode" /\ OpCode = 15
    /\ instruction % 256 = 255 /\ error_value = 255

\* ------------------------------------------------- exit code and terminal
\* the results with which the process ends on a fatal error
FatalErrors ==
    {"FewArguments", "BadFile", "BadImageSize", "exit1", "BadTrapCode",
     "BadTermios", "DisableInputBuffering"}

\* C16: when the process has ended, its exit code is 0 after a normal HALT
\* and not 0 after a fatal error (missing image argument, file I/O failure,
\* image overflow, RTI or reserved opcode, unknown trap vector, terminal
\* setup failure).
C16_ExitCodes ==
    loc = "exited" =>
        /\ (result \in FatalErrors) => exit_code # 0
        /\ (result = "Ok" /\ ~running) => exit_code = 0

\* the process has ended after the terminal was put into non-canonical,
\* no-echo mode
EndedAfterRawMode ==
    /\ loc \in {"exited", "panicked"}
    /\ result \notin {"BadTermios", "DisableInputBuffering"}

\* C17: when the process has ended after stdin was put into non-canonical,
\* no-echo mode, the terminal has the settings read before ICANON and ECHO
\* were cleared (the ones the ctrlc handler holds), unless the restoring
\* tcsetattr itself failed.
C17_TerminalRestored ==
    (EndedAfterRawMode /\ result # "RestoreInputBuffering") =>
        tty = handler_termio

\* ------------------------------------------------------ frames of COND
\* C18: BR, ST, JSR/JSRR, STR, STI, JMP/RET, the RTI and reserved words and
\* the traps other than GETC and IN leave COND as it was, for every word and
\* every state before it.
C18_CondFrame ==
    [][(/\ loc = "step"
        /\ result' # "Interrupted"
        /\ \/ OpCode \in {0, 3, 4, 7, 8, 11, 12, 13}
           \/ OpCode = 15 /\ instruction % 256 \notin {32, 35}) =>
          registers'[Rcond] = registers[Rcond]]_vars

\* C18 witness: ST of a register holding 0 has executed with COND = NEG.
C18_Witness ==
    /\ harness = "unit" /\ Executed /\ steps = 1
    /\ OpCode = 3 /\ registers[FieldDr] = 0
    /\ MemGet(memory, PcRelative(9)) = 0
    /\ registers[Rcond] = Neg

\* ------------------------------------------------------ indirect access
\* C19: for the effective address a of the word, LDI leaves in DR and COND
\* what LD with the effective address mem[a] leaves, i.e. DR = mem[mem[a]];
\* STI leaves the memory that ST with the effective address mem[a] leaves
\* once mem[a] has been read: mem[mem[a]] = R[SR] and no other word differs.
C19_IndirectThroughPointer ==
    [][(loc = "step" /\ result' # "Interrupted") =>
        /\ OpCode = 10 =>
              LET pointer == MemGet(memory, PcRelative(9))
                  through == load(2 * 4096 + FieldDr * 512,
                                  [State EXCEPT !.registers[Rpc] = pointer])
              IN /\ registers'[FieldDr] = MemGet(memory, MemGet(memory, PcRelative(9)))
                 /\ registers'[FieldDr] = through.registers[FieldDr]
                 /\ registers'[Rcond] = through.registers[Rcond]
        /\ OpCode = 11 =>
              LET read == memory_read(memory, PcRelative(9), stdin)
                  through == store(3 * 4096 + FieldDr * 512,
                                   [memory |-> read.memory,
                                    registers |-> [registers EXCEPT ![Rpc] = read.value],
                                    running |-> running])
              IN /\ memory' = through.memory
                 /\ MemGet(memory', read.value) = registers[FieldDr]
                 /\ SameMemoryExcept(read.memory, memory', {read.value})]_vars

\* C19 witness: loop_test's program has executed its LDI (R5 = mem[mem[50]]
\* = 25) and then its STI, which wrote R1 through the pointer.
C19_Witness ==
    /\ harness = "loop_test" /\ Executed /\ instruction = 45900
    /\ registers[5] = 25
    /\ registers[1] # 0
    /\ MemGet(memory, PcRelative(9)) # PcRelative(9)
    /\ MemGet(memory, MemGet(memory, PcRelative(9))) = registers[1]

\* ------------------------------------------------------------------- BR
\* C20: BR sets PC to (PC + sext(off9)) mod 2^16 exactly when n and COND is
\* NEG, or z and COND is ZRO, or p and COND is POS, and otherwise leaves PC
\* as it was; with nzp = 000 PC is never changed, and with nzp = 111 and
\* COND one of the three flags (as it is in every state reachable from
\* State::default) the branch is always taken.
C20_BranchExactly ==
    [][(loc = "step" /\ OpCode = 0 /\ result' # "Interrupted") =>
        /\ BrTaken => registers'[Rpc] = PcRelative(9)
        /\ ~BrTaken => registers'[Rpc] = registers[Rpc]
        /\ FieldDr = 0 => registers'[Rpc] = registers[Rpc]
        /\ (FieldDr = 7 /\ registers[Rcond] \in {Pos, Zro, Neg}) =>
              registers'[Rpc] = PcRelative(9)
        /\ \A r \in 0..(Rcount - 1) \ {Rpc} : registers'[r] = registers[r]
        /\ memory' = memory]_vars

\* C20 witness: BRnzp with the offset -1 has executed with COND = NEG and
\* PC is back at the address of the word.
C20_Witness ==
    /\ harness = "unit" /\ Executed /\ steps = 1
    /\ OpCode = 0 /\ FieldDr = 7 /\ SextInt(9) = -1
    /\ registers[Rcond] = Neg
    /\ registers[Rpc] = memory_address

Imm16 == (SextInt(5) + 65536) % 65536

\* C22: for an ADD or AND word in immediate form and every register SR2
\* that holds the sign-extended immediate, the register form of the word
\* (same DR and SR1, that SR2) leaves the same R[DR] and the same COND on the
\* same state.
C22_ImmediateAgreesWithRegister ==
    [][(/\ loc = "step" /\ OpCode \in {1, 5} /\ (instruction \div 32) % 2 = 1
        /\ result' # "Interrupted") =>
          \A sr2 \in 0..7 :
              registers[sr2] = Imm16 =>
                  LET word == (instruction - (instruction % 64)) + sr2
                      other == IF OpCode = 1 THEN add(word, State) ELSE and(word, State)
                  IN /\ registers'[FieldDr] = other.registers[FieldDr]
                     /\ registers'[Rcond] = other.registers[Rcond]]_vars

\* C22 witness: ADD R2,R1,#-1 has executed with R1 = 1 while R4 holds 0xFFFF,
\* the immediate sign-extended.
C22_Witness ==
    /\ harness = "unit" /\ Executed /\ steps = 1
    /\ instruction = 5247
    /\ registers[4] = 65535 /\ registers[1] = 1
    /\ registers[2] = 0 /\ registers[Rcond] = Zro

\* C23: after NOT DR,SR the word NOT DR,DR leaves in R[DR] the value x that
\* R[SR] held before the first NOT, with COND the sign of x.
C23_NotInvolution ==
    [][(loc = "step" /\ OpCode = 9 /\ result' # "Interrupted") =>
          LET x == registers[FieldBase]
              first == [memory |-> memory', registers |-> registers',
                        running |-> running']
              second == not(9 * 4096 + FieldDr * 512 + FieldDr * 64 + 63, first)
          IN /\ registers'[FieldDr] = 65535 - x
             /\ second.registers[FieldDr] = x
             /\ second.registers[Rcond] = FlagOf(x)]_vars

\* C23 witness: NOT R1,R4 has executed with R4 = 0xFFFF: R1 is 0.
C23_Witness ==
    /\ harness = "unit" /\ Executed /\ steps = 1
    /\ instruction = 37695
    /\ registers[4] = 65535 /\ registers[1] = 0 /\ registers[Rcond] = Zro

\* ------------------------------------------------------------------- TRAP
\* C24: a TRAP word, HALT included, leaves R7 as it was: the PC is not
\* saved.
C24_TrapKeepsR7 ==
    [][(loc = "step" /\ OpCode = 15 /\ result' # "Interrupted") =>
          registers'[Rr7] = registers[Rr7]]_vars

\* C24 witness: HALT has executed at address 0 with R7 = 0x8000, which is
\* not the PC.
C24_Witness ==
    /\ harness = "unit" /\ loc = "fetch" /\ steps = 1 /\ ~running
    /\ instruction % 256 = 37 /\ OpCode = 15
    /\ memory_address = 0
    /\ registers[Rr7] = 32768 /\ registers[Rpc] = 1

\* ----------------------------------------------------------------- decode
\* C25: for the fetched word, instruction >> 12 is one of 0..15 and
\* Operations::try_from maps each of the 16 values to an operation; each of
\* the three 3-bit fields maps to one of R0..R7 by Registers::try_from; no
\* step of run_step ends in BadOpCode, BadRegisterReference or the panic of
\* the unwrap.
C25_DecodeTotal ==
    [][(loc = "step" /\ result' # "Interrupted") =>
        /\ shr(instruction, 12) \in 0..15
        /\ \A value \in 0..15 : Operations_try_from(value) # "BadOpCode"
        /\ \A shift \in {0, 6, 9} :
              LET decoded == Registers_try_from(bitand(shr(instruction, shift), 7))
              IN decoded.ok /\ decoded.register \in 0..7
        /\ \A value \in 0..7 : Registers_try_from(value).ok
        /\ result' \notin {"BadOpCode", "BadRegisterReference", "panic"}
        /\ loc' # "panicked"]_vars

\* C25 witness: ADD R7,R7,R7, every register field 7, has executed.
C25_Witness ==
    /\ harness = "unit" /\ Executed /\ steps = 1
    /\ instruction = 8135
    /\ registers[Rr7] = 0 /\ registers[Rcond] = Zro

\* ---------------------------------------------------- values of ADD, AND
\* the second operand of an ADD or AND word: the sign-extended immediate
\* when bit 5 is 1, R[SR2] when it is 0
Operand ==
    IF (instruction \div 32) % 2 = 1 THEN Imm16 ELSE registers[instruction % 8]

\* bit i of a word
Bit(value, i) == (value \div (2 ^ i)) % 2

\* C26: ADD leaves (R[SR1] + operand) mod 2^16 in R[DR], the operand being
\* R[SR2] when bit 5 is 0 and the sign-extended imm5 when it is 1; a sum
\* past 0xFFFF wraps and run_step returns Ok; COND is the sign of the sum.
C26_AddWraps ==
    [][(loc = "step" /\ OpCode = 1 /\ result' # "Interrupted") =>
        /\ registers'[FieldDr] = (registers[FieldBase] + Operand) % 65536
        /\ registers'[Rcond] = FlagOf(registers'[FieldDr])
        /\ result' = "Ok" /\ loc' = "fetch"]_vars

\* C26 witness: ADD R7,R0,#-1 (0x1E3F) has executed with R0 = 0: R7 is
\* 0xFFFF and COND is NEG.
C26_Witness ==
    /\ harness = "unit" /\ Executed /\ steps = 1
    /\ instruction = 7743
    /\ registers[0] = 0 /\ registers[Rr7] = 65535 /\ registers[Rcond] = Neg

\* C27: AND leaves in R[DR] the bitwise AND of R[SR1] and the operand
\* (R[SR2], or imm5 sign-extended to 16 bits), so the high bits of R[SR1]
\* pass a negative immediate: 0xFFFF AND #0x16 is 0xFFF6 with COND = NEG.
C27_AndBitwise ==
    [][(loc = "step" /\ OpCode = 5 /\ result' # "Interrupted") =>
        /\ \A i \in 0..15 :
              Bit(registers'[FieldDr], i) = Bit(registers[FieldBase], i) * Bit(Operand, i)
        /\ registers'[Rcond] = FlagOf(registers'[FieldDr])
        /\ LET example == and(24438, [State EXCEPT !.registers[5] = 65535])
           IN example.registers[7] = 65526 /\ example.registers[Rcond] = Neg]_vars

\* C27 witness: AND R7,R4,#-16 has executed with R4 = 0xFFFF: R7 is 0xFFF0
\* and COND is NEG.
C27_Witness ==
    /\ harness = "unit" /\ Executed /\ steps = 1
    /\ instruction = 24368
    /\ registers[4] = 65535 /\ registers[Rr7] = 65520 /\ registers[Rcond] = Neg

\* ------------------------------------------------------------- LDR, STR
\* the address (R[BaseR] + sext(off6)) mod 2^16 of the fetched word
BaseRelative == (registers[FieldBase] + SextInt(6) + 65536) % 65536

\* C28: LDR leaves in R[DR] the word at (R[BaseR] + sext(off6)) mod 2^16 and
\* STR writes R[SR] at that address, whatever PC is and for offsets of both
\* signs.
C28_BaseRelativeAddress ==
    [][(loc = "step" /\ result' # "Interrupted") =>
        /\ OpCode = 6 => registers'[FieldDr] = MemGet(memory, BaseRelative)
        /\ OpCode = 7 =>
              /\ MemGet(memory', BaseRelative) = registers[FieldDr]
              /\ SameMemoryExcept(memory, memory', {BaseRelative})]_vars

\* C28 witness: STR R4,R1,#-1 has executed at address 0xFFFE with R1 = 1 and
\* R4 = 0xFFFF: the word at address 0 is 0xFFFF.
C28_Witness ==
    /\ harness = "unit" /\ Executed /\ steps = 1
    /\ instruction = 30847 /\ memory_address = 65534
    /\ registers[1] = 1 /\ registers[4] = 65535
    /\ MemGet(memory, 0) = 65535

\* ------------------------------------------------------- exact-fit image
\* C29: a file whose payload is exactly 65536 - origin words, the last one
\* at address 0xFFFF, makes read_file_to_memory return Ok with every
\* payload word in memory.
C29_ExactFitLoads ==
    [][(FileRead /\ Len(buffer') >= 2
            /\ PayloadWords(buffer') = MEM_MAX - Origin(buffer')) =>
          /\ result' = "Ok"
          /\ \A x \in Origin(buffer')..(MEM_MAX - 1) :
                MemGet(memory', x) = ImageWord(buffer', x)]_vars

\* ------------------------------------------------- frames of instructions
\* the registers of R outside S are as they were
SameRegistersExcept(S) == \A r \in (0..(Rcount - 1)) \ S : registers'[r] = registers[r]

\* the memory differs in at most the word at address, the words a keyboard
\* poll of the read at polled writes aside
OneWordWritten(address, polled) ==
    SameMemoryExcept(memory, memory',
        {address} \cup (IF polled = Kbsr THEN {Kbsr, Kbdr} ELSE {}))

\* C30: ADD, AND, NOT, LD, LDR, LDI and LEA change no general register but
\* R[DR] and no memory word; ST, STR and STI change no register and no
\* memory word but the one they store to (STI's read of its pointer is a
\* keyboard poll when the pointer is at KBSR); BR and JMP change no register
\* but PC; JSR and JSRR change no register but R7 and PC.
C30_InstructionFrames ==
    [][(loc = "step" /\ result' # "Interrupted") =>
        /\ OpCode \in {1, 5, 9, 2, 6, 10, 14} =>
              /\ SameRegistersExcept({FieldDr, Rpc, Rcond})
              /\ memory' = memory
        /\ OpCode = 3 =>
              /\ registers' = registers
              /\ OneWordWritten(PcRelative(9), 0)
        /\ OpCode = 7 =>
              /\ registers' = registers
              /\ OneWordWritten(BaseRelative, 0)
        /\ OpCode = 11 =>
              /\ registers' = registers
              /\ OneWordWritten(PolledWord(PcRelative(9)), PcRelative(9))
        /\ OpCode \in {0, 12} => SameRegistersExcept({Rpc})
        /\ OpCode = 4 => SameRegistersExcept({Rr7, Rpc})]_vars

\* C30 witness: JMP R4 has executed with R4 = 0xFFFF and R7 = 0x8000: PC is
\* 0xFFFF and R7 is as it was.
C30_Witness ==
    /\ harness = "unit" /\ Executed /\ steps = 1
    /\ instruction = 49408
    /\ registers[Rpc] = 65535 /\ registers[4] = 65535
    /\ registers[Rr7] = 32768 /\ registers[Rcond] = Pos

\* --------------------------------------------------------------- JSRR R7
\* C31: JSRR with BaseR = R7 leaves PC and R7 both equal to the PC the word
\* was entered with, the incremented PC of the fetch: the value R7 held is
\* not the jump target.
C31_JsrrR7FallsThrough ==
    [][(/\ loc = "step" /\ OpCode = 4 /\ (instruction \div 2048) % 2 = 0
        /\ FieldBase = 7 /\ result' # "Interrupted") =>
          /\ registers[Rpc] = (memory_address + 1) % 65536
          /\ registers'[Rpc] = registers[Rpc]
          /\ registers'[Rr7] = registers[Rpc]
          /\ loc' = "fetch"]_vars

\* C31 witness: JSRR R7 (0x41C0) has executed at address 0 in the register
\* file whose R7 was 0x8000 (R3 still holds 0x8000): PC and R7 are 1.
C31_Witness ==
    /\ harness = "unit" /\ Executed /\ steps = 1
    /\ instruction = 16832 /\ memory_address = 0
    /\ registers[3] = 32768
    /\ registers[Rpc] = 1 /\ registers[Rr7] = 1

\* ------------------------------------------------- BadImageSize, no undo
\* C32: when read_file_to_memory returns BadImageSize, every address of
\* [origin, 0xFFFF] holds the payload word the file has for it, whatever an
\* earlier image left there, and the words outside that range are as they
\* were.
C32_BadImageSizeKeepsWrites ==
    [][(FileRead /\ result' = "BadImageSize") =>
          /\ PayloadWords(buffer') >= MEM_MAX - Origin(buffer')
          /\ \A x \in Origin(buffer')..(MEM_MAX - 1) :
                MemGet(memory', x) = ImageWord(buffer', x)
          /\ SameMemoryExcept(memory, memory', Origin(buffer')..(MEM_MAX - 1))]_vars

\* C32 witness: after the image FF FF 9A (0x9A00 at 0xFFFF) the image
\* FF FF 12 34 56 78 was refused with BadImageSize, and 0xFFFF holds its
\* first word 0x1234.
C32_Witness ==
    /\ loc = "exited" /\ result = "BadImageSize"
    /\ paths = <<Image(65535, <<>>, <<154>>), Image(65535, <<4660, 22136>>, <<>>)>>
    /\ MemGet(memory, 65535) = 4660

====
